---- MODULE Spec2Model ----
(***************************************************************************)
(* A model of recommiter (src/src/index.ts): run() opens a repository,     *)
(* resolves the source branch, (re)creates the branch recommited/<branch>, *)
(* amends the oldest commit and re-creates every later commit on top of    *)
(* the previously rewritten one, then prints a summary.                    *)
(*                                                                         *)
(* The version-control backend (nodegit over libgit2) is modelled by what  *)
(* the calls of index.ts do to the repository: an object database of       *)
(* content-addressed commits (odb), the branch pointers (refs) and the     *)
(* symbolic HEAD (head).  A backend call that can fail for a reason the    *)
(* repository state does not decide (I/O) fails nondeterministically.      *)
(*                                                                         *)
(* Strings that the program searches (paths, messages) are sequences of    *)
(* one-character strings.  A unix time is kept as the pair [d, s] of whole *)
(* days and seconds of the day (t = 86400*d + s): TLC's integers are 32    *)
(* bits wide, JavaScript's are not.                                        *)
(***************************************************************************)
EXTENDS Integers, Sequences, FiniteSets, TLC

\* ------------------------------------------------------------------ bounds

\* The longest source history (number of commits, the seed included).
MaxCommits == 3

\* The number of times the tool is run on the repository.
MaxRuns == 2

\* Math.random() is drawn from {0/RandSteps, ..., (RandSteps-1)/RandSteps}.
RandSteps == 4

\* ------------------------------------------------------------- characters

Str_server == <<"s","e","r","v","e","r">>
Str_client == <<"c","l","i","e","n","t">>

\* index.ts:8-9
FRONTEND_LABEL == Str_client
BACKEND_LABEL == Str_server

\* index.ts:207, the two arguments of String.prototype.replace
MARKER == <<"M","A","K","H","R","O","V","Y","I">>
REPLACEMENT == <<"A","n","o","t","h","e","r","O","n","e","P","r","o","j","e","c","t">>

\* s.includes(pat)
Includes(s, pat) ==
  \E k \in 1..(Len(s) - Len(pat) + 1) : SubSeq(s, k, k + Len(pat) - 1) = pat

\* s.indexOf(pat), 1-based; 0 when pat does not occur
IndexOf(s, pat) ==
  IF Includes(s, pat)
  THEN CHOOSE k \in 1..(Len(s) - Len(pat) + 1) :
         /\ SubSeq(s, k, k + Len(pat) - 1) = pat
         /\ \A j \in 1..(k - 1) : SubSeq(s, j, j + Len(pat) - 1) # pat
  ELSE 0

\* s.replace(pat, rep) with a string pattern: the first occurrence only
StringReplace(s, pat, rep) ==
  LET k == IndexOf(s, pat)
  IN IF k = 0 THEN s
     ELSE SubSeq(s, 1, k - 1) \o rep \o SubSeq(s, k + Len(pat), Len(s))

\* index.ts:207
RewriteMessage(msg) == StringReplace(msg, MARKER, REPLACEMENT)

\* ------------------------------------------------------------------- time

\* 2^31 and 2^32 seconds as [d, s] pairs
Two31 == [d |-> 24855, s |-> 11648]
Two32 == [d |-> 49710, s |-> 23296]

TimeLess(a, b) == a.d < b.d \/ (a.d = b.d /\ a.s < b.s)

TimeMinus(a, b) ==
  IF a.s >= b.s THEN [d |-> a.d - b.d, s |-> a.s - b.s]
  ELSE [d |-> a.d - b.d - 1, s |-> a.s - b.s + 86400]

\* x | 0 (ToInt32) for 0 <= x < 2^32 + 2^31
ToInt32(t) == IF TimeLess(t, Two31) THEN t ELSE TimeMinus(t, Two32)

IsLeap(y) == (y % 4 = 0 /\ y % 100 # 0) \/ y % 400 = 0

\* days of month m (0 = January) of year y
DaysInMonth(y, m) ==
  IF m = 1 THEN (IF IsLeap(y) THEN 29 ELSE 28)
  ELSE IF m \in {3, 5, 8, 10} THEN 30 ELSE 31

\* Date.getFullYear/getMonth/getDate of the day `z` days after 1970-01-01
Civil(z) ==
  LET zz == z + 719468
      era == zz \div 146097
      doe == zz - era * 146097
      yoe == (doe - doe \div 1460 + doe \div 36524 - doe \div 146096) \div 365
      doy == doe - (365 * yoe + yoe \div 4 - yoe \div 100)
      mp == (5 * doy + 2) \div 153
      dd == doy - (153 * mp + 2) \div 5 + 1
      mm == IF mp < 10 THEN mp + 2 ELSE mp - 10
      yy == yoe + era * 400 + (IF mm <= 1 THEN 1 ELSE 0)
  IN [y |-> yy, m |-> mm, d |-> dd]

\* the day number of year y, month m (0 = January), day d
DaysFromCivil(y, m, d) ==
  LET yy == IF m <= 1 THEN y - 1 ELSE y
      era == yy \div 400
      yoe == yy - era * 400
      mp == IF m >= 2 THEN m - 2 ELSE m + 10
      doy == (153 * mp + 2) \div 5 + d - 1
      doe == yoe * 365 + yoe \div 4 - yoe \div 100 + doy
  IN era * 146097 + doe - 719468

\* date-fns addMonths(date, amount): the same day of the month `amount`
\* months later, or that month's last day when it is shorter; the time of
\* the day is kept.
addMonths(t, amount) ==
  LET c == Civil(t.d)
      mi == c.m + amount
      y2 == c.y + mi \div 12
      m2 == mi % 12
      daysInMonth == DaysInMonth(y2, m2)
      d2 == IF c.d >= daysInMonth THEN daysInMonth ELSE c.d
  IN [d |-> DaysFromCivil(y2, m2, d2), s |-> t.s]

\* index.ts:49-51
operateTime(unixTime) == ToInt32(addMonths(unixTime, 6))

\* ------------------------------------------------------------ author pool

\* randomSelect's result on an empty array: arr[0] of [] is undefined
Undefined == [name |-> "undefined", email |-> "undefined", role |-> "undefined"]

Ann == [name |-> "Ann", email |-> "ann@pool", role |-> "backend"]
Fay == [name |-> "Fay", email |-> "fay@pool", role |-> "frontend"]
Bo == [name |-> "Bo", email |-> "bo@pool", role |-> "backend"]

\* config/authors.json: any non-empty list of {name, email, role}; a role
\* may have no entry
PoolChoices == {<<Ann, Fay>>, <<Bo>>}

\* (Math.random() * len) | 0 with Math.random() = r / RandSteps
RandomIndex(len, r) == (r * len) \div RandSteps

\* index.ts:13, arr[(Math.random() * arr.length) | 0]
randomSelect(arr, r) ==
  IF Len(arr) = 0 THEN Undefined ELSE arr[RandomIndex(Len(arr), r) + 1]

\* index.ts:15-21; role "" is the omitted argument
getRandomAuthor(authors, role, r) ==
  IF role = "" THEN randomSelect(authors, r)
  ELSE randomSelect(SelectSeq(authors, LAMBDA a : a.role = role), r)

\* arr.filter(pred).length for a sequence of paths
CountIncluding(files, label) ==
  Len(SelectSeq(files, LAMBDA path : Includes(path, label)))

\* index.ts:35-47, given the commit's files and the random draw
determineAuthorForCommit(authors, commitFiles, r) ==
  LET frontendChangesAmount == CountIncluding(commitFiles, FRONTEND_LABEL)
      backendChangesAmount == CountIncluding(commitFiles, BACKEND_LABEL)
  IN IF backendChangesAmount > frontendChangesAmount
     THEN getRandomAuthor(authors, "backend", r)
     ELSE IF frontendChangesAmount > backendChangesAmount
     THEN getRandomAuthor(authors, "frontend", r)
     ELSE getRandomAuthor(authors, "", r)

\* ------------------------------------------------------- source histories

\* The paths of the repository, in the order a diff lists them.
Paths ==
  << Str_client \o <<"/">> \o Str_server,
     Str_client \o <<"/","u","i">>,
     <<"d","o","c","s">>,
     Str_server \o <<"/","a","p","i">>,
     Str_server \o <<"/","d","b">> >>

PathIds == 1..Len(Paths)

\* A tree maps each path to the version of its content (0: absent).
EmptyTree == [p \in PathIds |-> 0]

Touch(tree, touched) ==
  [p \in PathIds |-> IF p \in touched THEN tree[p] + 1 ELSE tree[p]]

Olga == [name |-> "Olga", email |-> "olga@orig"]
Omar == [name |-> "Omar", email |-> "omar@orig"]

Sig(who, time, offset) ==
  [name |-> who.name, email |-> who.email, time |-> time, offset |-> offset]

At(day, sec) == [d |-> day, s |-> sec]

Msg_fix == <<"f","i","x">>

\* The shapes an original commit takes: the paths it touches, its message
\* and its two signatures.
Profiles ==
  << \* 2 backend paths against 1 frontend path; two markers;
     \* 2023-01-15T10:00:00Z and one hour later
     [touched |-> {2, 4, 5},
      message |-> MARKER \o <<" ">> \o Msg_fix \o <<" ">> \o MARKER,
      author |-> Sig(Olga, At(19372, 36000), 120),
      committer |-> Sig(Omar, At(19372, 39600), 0)],
     \* 1 frontend path; no marker; 2023-08-31, the last day of a long month
     [touched |-> {2},
      message |-> Msg_fix,
      author |-> Sig(Omar, At(19600, 100), -300),
      committer |-> Sig(Omar, At(19601, 7), -300)],
     \* one path holding both labels and one holding none; one marker;
     \* 2038-01-01T00:00:00Z, less than six months before 2^31 seconds
     [touched |-> {1, 3},
      message |-> Msg_fix \o <<" ">> \o MARKER,
      author |-> Sig(Olga, At(24837, 0), 60),
      committer |-> Sig(Olga, At(19372, 36000), 60)] >>

ProfileIds == 1..Len(Profiles)

Histories == UNION {[1..n -> ProfileIds] : n \in 1..MaxCommits}

\* The histories the tool is run on repeatedly: the profiles in turn.
RerunHistories ==
  {[k \in 1..n |-> ((k - 1) % Len(Profiles)) + 1] : n \in 1..MaxCommits}

RECURSIVE TreeAfter(_, _)
TreeAfter(h, k) ==
  IF k = 0 THEN EmptyTree ELSE Touch(TreeAfter(h, k - 1), Profiles[h[k]].touched)

\* The object database holding the linear history h: commit k is odb[k],
\* its parent commit k - 1.
OriginalOdb(h) ==
  [k \in 1..Len(h) |->
     [parents |-> IF k = 1 THEN <<>> ELSE <<k - 1>>,
      tree |-> TreeAfter(h, k),
      message |-> Profiles[h[k]].message,
      author |-> Profiles[h[k]].author,
      committer |-> Profiles[h[k]].committer]]

\* ------------------------------------------------------------- repository

\* index.ts:262, the branch option of the only call of run
BranchName == "result"
OriginName == "origin/result"
\* index.ts:118
NewBranchName == "recommited/result"
\* another local branch of the repository
OtherName == "master"

Ref(name, target) == [name |-> name, target |-> target]

Exists(rs, name) == \E x \in rs : x.name = name

Target(rs, name) == (CHOOSE x \in rs : x.name = name).target

\* the commit HEAD resolves to; 0 when HEAD names no existing branch
HeadTip(rs, hd) == IF Exists(rs, hd) THEN Target(rs, hd) ELSE 0

\* git_branch_create with force: refused for the branch HEAD names
CanCreateBranch(rs, hd, name) == ~(Exists(rs, name) /\ hd = name)

SetRef(rs, name, target) ==
  {x \in rs : x.name # name} \cup {Ref(name, target)}

\* repo.createBranch(name, commit, true), when it is not refused
createBranch(rs, name, commit) == SetRef(rs, name, commit)

\* Reference.delete() that leaves the pointer in place
DeleteRef_Kept(rs, name) == rs

\* Reference.delete()
DeleteRef(rs, name) == {x \in rs : x.name # name}

\* The id an object gets: objects are content-addressed, so writing an
\* object the database holds yields the id it has.
IdOf(db, obj) ==
  IF \E k \in 1..Len(db) : db[k] = obj
  THEN CHOOSE k \in 1..Len(db) : db[k] = obj
  ELSE Len(db) + 1

Store(db, obj) ==
  IF \E k \in 1..Len(db) : db[k] = obj THEN db ELSE Append(db, obj)

\* walker.getCommitsUntil(() => true) from `tip`, reversed: oldest first
RECURSIVE Walk(_, _)
Walk(db, tip) ==
  IF db[tip].parents = <<>> THEN <<tip>>
  ELSE Append(Walk(db, db[tip].parents[1]), tip)

\* the tree of commit c's first parent, the empty tree for a root
ParentTree(db, c) ==
  IF db[c].parents = <<>> THEN EmptyTree ELSE db[db[c].parents[1]].tree

\* index.ts:23-33, the new-side paths of the commit's diff against its parent
getCommitFiles(db, c) ==
  LET changed == {p \in PathIds : db[c].tree[p] # ParentTree(db, c)[p]}
      Pick[k \in 0..Len(Paths)] ==
        IF k = 0 THEN <<>>
        ELSE IF k \in changed THEN Append(Pick[k - 1], Paths[k]) ELSE Pick[k - 1]
  IN Pick[Len(Paths)]

\* ------------------------------------------------------------------ state

VARIABLES
  odb,               \* the repository's commits, by id
  refs,              \* the repository's branch pointers
  head,              \* the branch HEAD names
  authors,           \* the author pool (index.ts:4)
  changeTime,        \* options.changeTime
  keepAuthor,        \* options.keepAuthor
  pc,                \* where run() stands
  abortAt,           \* the call whose rejection ended run(), "" if none
  originalBranch,    \* index.ts:85
  firstCommit,       \* index.ts:114
  commits,           \* index.ts:114, the commits after the first
  newBranch,         \* index.ts:119
  checkout,          \* the promise of repo.checkoutBranch (index.ts:135)
  newFirstCommit,    \* index.ts:138, <<>> until the seed is amended
  acc,               \* the reduce accumulator's commits (index.ts:179)
  i,                 \* the index in `commits` of the reduce step
  currentCommit,     \* index.ts:199
  authorSignature,   \* index.ts:188
  commiterSignature, \* index.ts:192
  modifiedCommits,   \* index.ts:234-236, the count printed; -1 before
  createCalls,       \* the calls of repo.createBranch made by this run
  rewrites,          \* each commit written: its original, its id, its step
  failed,            \* the steps whose try block threw (index.ts:225-228)
  ioFault,           \* a branch call of this run failed for I/O
  author,            \* index.ts:139 and 181, the identity chosen last
  classified,        \* the commit it was chosen for, 0 if none
  runs               \* the runs of the tool started so far

vars ==
  <<odb, refs, head, authors, changeTime, keepAuthor, pc, abortAt,
    originalBranch, firstCommit, commits, newBranch, checkout, newFirstCommit,
    acc, i, currentCommit, authorSignature, commiterSignature,
    modifiedCommits, createCalls, rewrites, failed, ioFault, author,
    classified, runs>>

config == <<authors, changeTime, keepAuthor, runs>>

chosen == <<author, classified>>

NoSignature == [name |-> "", email |-> "", time |-> At(0, 0), offset |-> 0]

\* index.ts:11
tail(arr) == arr[Len(arr)]

\* index.ts:141-144 and 183-186
NewTime(change, time) == IF change THEN operateTime(time) ELSE time

\* NewSignature shifting the time of a kept signature too
NewSignature_ShiftKept(keep, change, original, identity) ==
  [name |-> IF keep THEN original.name ELSE identity.name,
   email |-> IF keep THEN original.email ELSE identity.email,
   time |-> NewTime(change, original.time), offset |-> original.offset]

\* NewSignature creating the signature at UTC, the original offset dropped
NewSignature_Utc(keep, change, original, identity) ==
  IF keep THEN original
  ELSE [name |-> identity.name, email |-> identity.email,
        time |-> NewTime(change, original.time), offset |-> 0]

\* index.ts:146-152 and 188-194: the original signature, or one created
\* from the chosen author, the new time and the original offset
NewSignature(keep, change, original, identity) ==
  IF keep THEN original
  ELSE [name |-> identity.name, email |-> identity.email,
        time |-> NewTime(change, original.time), offset |-> original.offset]

\* index.ts:148 and 190: author.name of undefined throws a TypeError
SignatureThrows(keep, identity) == ~keep /\ identity = Undefined

\* index.ts:165-175 and 212-222
CommitStats(id, original, signature) ==
  [id |-> id,
   old |-> [author |-> original.author.name, time |-> original.author.time],
   new |-> [author |-> signature.name, time |-> signature.time]]

\* c.amend('HEAD', ...): refused unless c is the tip of the branch HEAD names
CanAmend(rs, hd, c) == Exists(rs, hd) /\ Target(rs, hd) = c

\* index.ts:154-161: the amended commit keeps c's parents
AmendedCommit(c, authorSig, commiterSig) ==
  [parents |-> c.parents, tree |-> c.tree, message |-> c.message,
   author |-> authorSig, committer |-> commiterSig]

\* repo.createCommit('HEAD', ...): refused when HEAD names a branch whose
\* tip is not the first parent
CanCreateCommit(rs, hd, parent) ==
  parent # 0 /\ (Exists(rs, hd) => Target(rs, hd) = parent)

\* CreatedCommit taking the tree of the parent commit
CreatedCommit_ParentTree(c, authorSig, commiterSig, parent) ==
  [parents |-> <<parent>>, tree |-> odb[parent].tree,
   message |-> RewriteMessage(c.message),
   author |-> authorSig, committer |-> commiterSig]

\* index.ts:203-210
CreatedCommit(c, authorSig, commiterSig, parent) ==
  [parents |-> <<parent>>, tree |-> c.tree,
   message |-> RewriteMessage(c.message),
   author |-> authorSig, committer |-> commiterSig]

\* index.ts:85-105: the name that resolves, "" when neither does
ResolveOriginalBranch(rs) ==
  IF Exists(rs, BranchName) THEN BranchName
  ELSE IF Exists(rs, OriginName) THEN OriginName
  ELSE ""

\* ------------------------------------------------------------------- Init

\* The branches of the repository: another branch at the root commit, and
\*   "local"  the source branch and its remote-tracking branch,
\*   "remote" the remote-tracking branch alone,
\*   "none"   neither,
\*   "stale"  as "local", with the destination branch an earlier run that
\*            ended after its createBranch left at the root commit.
InitialRefs(kind, tip) ==
  {Ref(OtherName, 1)} \cup
  (IF kind \in {"local", "stale"}
   THEN {Ref(BranchName, tip), Ref(OriginName, tip)} ELSE {}) \cup
  (IF kind = "remote" THEN {Ref(OriginName, tip)} ELSE {}) \cup
  (IF kind = "stale" THEN {Ref(NewBranchName, 1)} ELSE {})

InitialHeads(kind) ==
  {OtherName} \cup
  (IF kind \in {"local", "stale"} THEN {BranchName} ELSE {}) \cup
  (IF kind = "stale" THEN {NewBranchName} ELSE {})

InitOn(histories, kinds) ==
  /\ \E h \in histories, kind \in kinds :
       /\ odb = OriginalOdb(h)
       /\ refs = InitialRefs(kind, Len(h))
       /\ head \in InitialHeads(kind)
  /\ authors \in PoolChoices
  /\ changeTime \in BOOLEAN
  /\ keepAuthor \in BOOLEAN
  /\ pc = "start"
  /\ abortAt = ""
  /\ originalBranch = ""
  /\ firstCommit = 0
  /\ commits = <<>>
  /\ newBranch = ""
  /\ checkout = "none"
  /\ newFirstCommit = <<>>
  /\ acc = <<>>
  /\ i = 0
  /\ currentCommit = 0
  /\ authorSignature = NoSignature
  /\ commiterSignature = NoSignature
  /\ modifiedCommits = -1
  /\ createCalls = 0
  /\ rewrites = <<>>
  /\ failed = {}
  /\ ioFault = FALSE
  /\ author = Undefined
  /\ classified = 0
  /\ runs = 1

Init == InitOn(Histories, {"local", "remote", "none", "stale"})

\* a repository no run of the tool has touched
InitFresh == InitOn(RerunHistories, {"local"})

\* ---------------------------------------------------------------- actions

\* Rejects with the rejection swallowed: run() goes on to its summary
Rejects_GoesOn(at) ==
  /\ pc' = "report"
  /\ abortAt' = at
  /\ UNCHANGED <<odb, refs, originalBranch, firstCommit, commits, newBranch,
                 newFirstCommit, acc, i, currentCommit, authorSignature,
                 commiterSignature, modifiedCommits, createCalls, rewrites,
                 failed, ioFault>>

\* A rejected promise that nothing catches ends run().
Rejects(at) ==
  /\ pc' = "aborted"
  /\ abortAt' = at
  /\ UNCHANGED <<odb, refs, originalBranch, firstCommit, commits, newBranch,
                 newFirstCommit, acc, i, currentCommit, authorSignature,
                 commiterSignature, modifiedCommits, createCalls, rewrites,
                 failed, ioFault>>

\* ResolveBranch taking the other branch when the source branch is missing
ResolveBranch_AnyBranch ==
  /\ pc = "start"
  /\ LET resolved == IF Exists(refs, BranchName) THEN BranchName ELSE OtherName
         walked == Walk(odb, Target(refs, resolved))
     IN /\ pc' = "createBranch"
        /\ originalBranch' = resolved
        /\ firstCommit' = Head(walked)
        /\ commits' = Tail(walked)
  /\ UNCHANGED <<abortAt, odb, refs, newBranch, newFirstCommit, acc, i,
                 currentCommit, authorSignature, commiterSignature,
                 modifiedCommits, createCalls, rewrites, failed>>
  /\ UNCHANGED <<head, checkout, config, ioFault, chosen>>

\* index.ts:73-116: open the repository, print the branch's target, resolve
\* the source branch and walk its history
ResolveBranch ==
  /\ pc = "start"
  /\ \E ok \in BOOLEAN :
       IF ~ok THEN Rejects("open")
       ELSE IF ~Exists(refs, BranchName) THEN Rejects("getBranch")
       ELSE LET resolved == ResolveOriginalBranch(refs)
                walked == Walk(odb, Target(refs, resolved))
            IN IF resolved = ""
               THEN /\ pc' = "returned"
                    /\ UNCHANGED <<abortAt, originalBranch, firstCommit, commits,
                                   odb, refs, newBranch, newFirstCommit, acc, i,
                                   currentCommit, authorSignature,
                                   commiterSignature, modifiedCommits,
                                   createCalls, rewrites, failed>>
               ELSE /\ pc' = "createBranch"
                    /\ originalBranch' = resolved
                    /\ firstCommit' = Head(walked)
                    /\ commits' = Tail(walked)
                    /\ UNCHANGED <<abortAt, odb, refs, newBranch, newFirstCommit,
                                   acc, i, currentCommit, authorSignature,
                                   commiterSignature, modifiedCommits,
                                   createCalls, rewrites, failed>>
  /\ UNCHANGED <<head, checkout, config, ioFault, chosen>>

\* index.ts:121-126: the first repo.createBranch; its failure is caught
CreateBranch ==
  /\ pc = "createBranch"
  /\ createCalls' = createCalls + 1
  /\ \E ok \in BOOLEAN :
       /\ ioFault' = (ioFault \/ ~ok)
       /\ IF ok /\ CanCreateBranch(refs, head, NewBranchName)
          THEN /\ refs' = createBranch(refs, NewBranchName, firstCommit)
               /\ newBranch' = NewBranchName
               /\ pc' = "checkoutBranch"
          ELSE /\ pc' = "deleteStale"
               /\ UNCHANGED <<refs, newBranch>>
  /\ UNCHANGED <<odb, abortAt, originalBranch, firstCommit, commits,
                 newFirstCommit, acc, i, currentCommit, authorSignature,
                 commiterSignature, modifiedCommits, rewrites, failed>>
  /\ UNCHANGED <<head, checkout, config, chosen>>

\* DeleteStale going back to the try block, a retry loop
DeleteStale_Retries ==
  /\ pc = "deleteStale"
  /\ \E ok \in BOOLEAN :
       /\ ioFault' = (ioFault \/ ~ok)
       /\ IF ok /\ Exists(refs, NewBranchName)
          THEN /\ refs' = DeleteRef(refs, NewBranchName)
               /\ pc' = "createBranch"
               /\ UNCHANGED abortAt
          ELSE /\ pc' = "aborted"
               /\ abortAt' = "delete"
               /\ UNCHANGED refs
  /\ UNCHANGED <<odb, originalBranch, firstCommit, commits, newBranch,
                 newFirstCommit, acc, i, currentCommit, authorSignature,
                 commiterSignature, modifiedCommits, createCalls, rewrites,
                 failed>>
  /\ UNCHANGED <<head, checkout, config, chosen>>

\* index.ts:127: look the stale pointer up and delete it
DeleteStale ==
  /\ pc = "deleteStale"
  /\ \E ok \in BOOLEAN :
       /\ ioFault' = (ioFault \/ ~ok)
       /\ IF ok /\ Exists(refs, NewBranchName)
          THEN /\ refs' = DeleteRef(refs, NewBranchName)
               /\ pc' = "recreateBranch"
               /\ UNCHANGED abortAt
          ELSE /\ pc' = "aborted"
               /\ abortAt' = "delete"
               /\ UNCHANGED refs
  /\ UNCHANGED <<odb, originalBranch, firstCommit, commits, newBranch,
                 newFirstCommit, acc, i, currentCommit, authorSignature,
                 commiterSignature, modifiedCommits, createCalls, rewrites,
                 failed>>
  /\ UNCHANGED <<head, checkout, config, chosen>>

\* index.ts:128: the second repo.createBranch, outside any try
RecreateBranch ==
  /\ pc = "recreateBranch"
  /\ createCalls' = createCalls + 1
  /\ \E ok \in BOOLEAN :
       /\ ioFault' = (ioFault \/ ~ok)
       /\ IF ok /\ CanCreateBranch(refs, head, NewBranchName)
          THEN /\ refs' = createBranch(refs, NewBranchName, firstCommit)
               /\ newBranch' = NewBranchName
               /\ pc' = "checkoutBranch"
               /\ UNCHANGED abortAt
          ELSE /\ pc' = "aborted"
               /\ abortAt' = "createBranch"
               /\ UNCHANGED <<refs, newBranch>>
  /\ UNCHANGED <<odb, originalBranch, firstCommit, commits, newFirstCommit,
                 acc, i, currentCommit, authorSignature, commiterSignature,
                 modifiedCommits, rewrites, failed>>
  /\ UNCHANGED <<head, checkout, config, chosen>>

\* index.ts:131-135: repo.checkoutBranch(newBranch) is started, not awaited
CheckoutBranch ==
  /\ pc = "checkoutBranch"
  /\ IF newBranch = "" THEN pc' = "returned" /\ UNCHANGED checkout
     ELSE pc' = "amend" /\ checkout' = "pending"
  /\ UNCHANGED <<odb, refs, abortAt, originalBranch, firstCommit, commits,
                 newBranch, newFirstCommit, acc, i, currentCommit,
                 authorSignature, commiterSignature, modifiedCommits,
                 createCalls, rewrites, failed>>
  /\ UNCHANGED <<head, config, ioFault, chosen>>

\* the checkout started at index.ts:135 ends by pointing HEAD at the branch
CheckoutCompletes ==
  /\ checkout = "pending"
  /\ checkout' = "done"
  /\ head' = newBranch
  /\ UNCHANGED <<odb, refs, pc, abortAt, originalBranch, firstCommit, commits,
                 newBranch, newFirstCommit, acc, i, currentCommit,
                 authorSignature, commiterSignature, modifiedCommits,
                 createCalls, rewrites, failed, config, ioFault, chosen>>

\* ... or fails; nothing awaits or catches it
CheckoutFails ==
  /\ checkout = "pending"
  /\ checkout' = "failed"
  /\ UNCHANGED <<odb, refs, head, pc, abortAt, originalBranch, firstCommit,
                 commits, newBranch, newFirstCommit, acc, i, currentCommit,
                 authorSignature, commiterSignature, modifiedCommits,
                 createCalls, rewrites, failed, config, ioFault, chosen>>

\* index.ts:138-176: amend the first commit
AmendFirstCommit ==
  /\ pc = "amend"
  /\ \E diffOk \in BOOLEAN, ok \in BOOLEAN, r \in 0..(RandSteps - 1) :
       LET c == odb[firstCommit]
           picked == determineAuthorForCommit(authors,
                                              getCommitFiles(odb, firstCommit), r)
           authorSig == NewSignature(keepAuthor, changeTime, c.author, picked)
           commiterSig == NewSignature(keepAuthor, changeTime, c.committer, picked)
           newCommit == AmendedCommit(c, authorSig, commiterSig)
           id == IdOf(odb, newCommit)
       IN IF ~diffOk THEN Rejects("seedDiff") /\ UNCHANGED chosen
          ELSE /\ author' = picked
               /\ classified' = firstCommit
               /\ IF SignatureThrows(keepAuthor, picked) THEN Rejects("seedAuthor")
                          ELSE IF ~(ok /\ CanAmend(refs, head, firstCommit))
                  THEN Rejects("amend")
                  ELSE /\ odb' = Store(odb, newCommit)
                       /\ refs' = SetRef(refs, head, id)
                       /\ newFirstCommit' = <<CommitStats(id, c, authorSig)>>
                       /\ rewrites' =
                            <<[orig |-> firstCommit, new |-> id, step |-> 0]>>
                       /\ i' = 1
                       /\ pc' = IF commits = <<>> THEN "report" ELSE "reduce"
                       /\ UNCHANGED <<abortAt, originalBranch, firstCommit,
                                      commits, newBranch, acc, currentCommit,
                                      authorSignature, commiterSignature,
                                      modifiedCommits, createCalls, failed>>
  /\ UNCHANGED <<head, checkout, config, ioFault>>

\* index.ts:179-201: one reduce step up to the choice of the parent
ReduceStep ==
  /\ pc = "reduce"
  /\ \E diffOk \in BOOLEAN, r \in 0..(RandSteps - 1) :
       LET c == odb[commits[i]]
           picked == determineAuthorForCommit(authors,
                                              getCommitFiles(odb, commits[i]), r)
       IN IF ~diffOk THEN Rejects("chainDiff") /\ UNCHANGED chosen
          ELSE /\ author' = picked
               /\ classified' = commits[i]
               /\ IF SignatureThrows(keepAuthor, picked) THEN Rejects("chainAuthor")
                  ELSE /\ authorSignature' =
                            NewSignature(keepAuthor, changeTime, c.author, picked)
                       /\ commiterSignature' =
                            NewSignature(keepAuthor, changeTime, c.committer, picked)
                       /\ currentCommit' =
                            IF acc # <<>> THEN tail(acc).id
                            ELSE HeadTip(refs, head)
                       /\ pc' = "createCommit"
                       /\ UNCHANGED <<odb, refs, abortAt, originalBranch,
                                      firstCommit, commits, newBranch,
                                      newFirstCommit, acc, i, modifiedCommits,
                                      createCalls, rewrites, failed>>
  /\ UNCHANGED <<head, checkout, config, ioFault>>

\* index.ts:203-230: create the commit; a failure is caught and logged
CreateCommit ==
  /\ pc = "createCommit"
  /\ \E ok \in BOOLEAN :
       LET c == odb[commits[i]]
           newCommit == CreatedCommit(c, authorSignature, commiterSignature,
                                      currentCommit)
           id == IdOf(odb, newCommit)
       IN IF ok /\ CanCreateCommit(refs, head, currentCommit)
          THEN /\ odb' = Store(odb, newCommit)
               /\ refs' = SetRef(refs, head, id)
               /\ acc' = Append(acc, CommitStats(id, c, authorSignature))
               /\ rewrites' =
                    Append(rewrites, [orig |-> commits[i], new |-> id, step |-> i])
               /\ UNCHANGED failed
          ELSE /\ failed' = failed \cup {i}
               /\ UNCHANGED <<odb, refs, acc, rewrites>>
  /\ i' = i + 1
  /\ pc' = IF i = Len(commits) THEN "report" ELSE "reduce"
  /\ currentCommit' = 0
  /\ authorSignature' = NoSignature
  /\ commiterSignature' = NoSignature
  /\ author' = Undefined
  /\ classified' = 0
  /\ UNCHANGED <<abortAt, originalBranch, firstCommit, commits, newBranch,
                 newFirstCommit, modifiedCommits, createCalls>>
  /\ UNCHANGED <<head, checkout, config, ioFault>>

\* Report counting the chain's records alone
Report_ChainOnly ==
  /\ pc = "report"
  /\ modifiedCommits' = Len(acc)
  /\ pc' = "done"
  /\ UNCHANGED <<odb, refs, abortAt, originalBranch, firstCommit, commits,
                 newBranch, newFirstCommit, acc, i, currentCommit,
                 authorSignature, commiterSignature, createCalls, rewrites,
                 failed, ioFault>>
  /\ UNCHANGED <<head, checkout, config, chosen>>

\* index.ts:233-259: the summary
Report ==
  /\ pc = "report"
  /\ modifiedCommits' = Len(newFirstCommit \o acc)
  /\ pc' = "done"
  /\ UNCHANGED <<odb, refs, abortAt, originalBranch, firstCommit, commits,
                 newBranch, newFirstCommit, acc, i, currentCommit,
                 authorSignature, commiterSignature, createCalls, rewrites,
                 failed, ioFault>>
  /\ UNCHANGED <<head, checkout, config, ioFault, chosen>>

\* index.ts:262: the process has ended and the tool is run again, on the
\* repository as the last run left it
RunAgain ==
  /\ pc \in {"done", "aborted", "returned"}
  /\ checkout # "pending"
  /\ runs < MaxRuns
  /\ runs' = runs + 1
  /\ pc' = "start"
  /\ abortAt' = ""
  /\ originalBranch' = ""
  /\ firstCommit' = 0
  /\ commits' = <<>>
  /\ newBranch' = ""
  /\ checkout' = "none"
  /\ newFirstCommit' = <<>>
  /\ acc' = <<>>
  /\ i' = 0
  /\ currentCommit' = 0
  /\ authorSignature' = NoSignature
  /\ commiterSignature' = NoSignature
  /\ modifiedCommits' = -1
  /\ createCalls' = 0
  /\ rewrites' = <<>>
  /\ failed' = {}
  /\ ioFault' = FALSE
  /\ author' = Undefined
  /\ classified' = 0
  /\ UNCHANGED <<odb, refs, head, authors, changeTime, keepAuthor>>

\* one run of the tool
Run ==
  \/ ResolveBranch
  \/ CreateBranch
  \/ DeleteStale
  \/ RecreateBranch
  \/ CheckoutBranch
  \/ CheckoutCompletes
  \/ CheckoutFails
  \/ AmendFirstCommit
  \/ ReduceStep
  \/ CreateCommit
  \/ Report

Next == Run

\* One run, on every repository of Init.
Spec == Init /\ [][Next]_vars

NextRerun ==
  \/ Run
  \/ RunAgain

\* The tool run on a fresh repository, and run again on what it left.
SpecRerun == InitFresh /\ [][NextRerun]_vars

\* ------------------------------------------------------------- properties

\* the commit a rewrite wrote, and the commit it rewrote
New(w) == odb[w.new]
Orig(w) == odb[w.orig]

Steps == 1..Len(rewrites)

\* C1. Chain linearity: every commit a chain step created has exactly one
\* parent, the commit written by the last rewrite that succeeded before it
\* (the amended first commit when no chain step succeeded before).
C1_ChainLinearity ==
  \A k \in Steps :
    k > 1 => New(rewrites[k]).parents = <<rewrites[k - 1].new>>

\* C2. Failure isolation: a chain step whose tree lookup or commit creation
\* failed leaves no record; the next step that succeeds is parented onto the
\* last commit written before the failure; and a run that ends has attempted
\* every chain commit.
C2_FailureIsolation ==
  /\ \A k \in Steps : rewrites[k].step \notin failed
  /\ Len(acc) + 1 = Len(rewrites) \/ rewrites = <<>>
  /\ \A k \in Steps :
       (k > 1 /\ \E f \in failed :
                   rewrites[k - 1].step < f /\ f < rewrites[k].step)
       => New(rewrites[k]).parents = <<rewrites[k - 1].new>>
  /\ pc = "done" =>
       \A st \in 1..Len(commits) :
         st \in failed \/ \E k \in Steps : rewrites[k].step = st

\* C3. A failure to compute the diff of a commit after the first is caught
\* for that commit alone: it never ends the run.
C3_DiffFailureRecoverable == ~(pc = "aborted" /\ abortAt = "chainDiff")

\* C4. Content fidelity: the amended first commit and every commit a chain
\* step created carries the tree of the commit it was made from.
C4_ContentFidelity ==
  \A k \in Steps : New(rewrites[k]).tree = Orig(rewrites[k]).tree

\* C4 happens: after a failed step, a step created a commit whose parent
\* has another tree, with new authors and shifted times.
C4_Witness ==
  /\ ~keepAuthor /\ changeTime /\ failed # {}
  /\ \E k \in Steps :
       /\ rewrites[k].step > 0
       /\ New(rewrites[k]).tree # odb[New(rewrites[k]).parents[1]].tree

DestinationPointers == {x \in refs : x.name = NewBranchName}

\* C5. Idempotent branch materialization: in the first run and in a run on
\* what an earlier run left, the branch calls fail only for I/O; once the
\* branch is created exactly one pointer recommited/<branch> exists.
C5_IdempotentMaterialization ==
  /\ (pc = "aborted" /\ abortAt \in {"delete", "createBranch"}) => ioFault
  /\ newBranch # "" => Cardinality(DestinationPointers) = 1

\* C5 happens: a second run found the destination branch checked out, had
\* its createBranch refused, deleted the pointer and created it again.
C5_Witness ==
  /\ runs = 2 /\ ~ioFault /\ createCalls = 2
  /\ newBranch = NewBranchName /\ head = NewBranchName
  /\ pc = "checkoutBranch"

\* C6. When <branch> does not resolve and origin/<branch> does, the run
\* goes on with origin/<branch>; it gives up "branch not found" only when
\* neither resolves.
C6_OriginFallback ==
  /\ (/\ pc # "start" /\ abortAt # "open"
      /\ ~Exists(refs, BranchName) /\ Exists(refs, OriginName))
     => originalBranch = OriginName
  /\ pc = "returned" =>
       ~Exists(refs, BranchName) /\ ~Exists(refs, OriginName)

\* the message with every occurrence of the marker replaced
RECURSIVE ReplaceAll(_, _, _)
ReplaceAll(msg, pat, by) ==
  LET k == IndexOf(msg, pat)
  IN IF k = 0 THEN msg
     ELSE SubSeq(msg, 1, k - 1) \o by
          \o ReplaceAll(SubSeq(msg, k + Len(pat), Len(msg)), pat, by)

\* C7. Message substitution: the amended first commit keeps its message; a
\* commit a chain step created has the original message with every
\* occurrence of MAKHROVYI replaced by AnotherOneProject.
C7_MessageSubstitution ==
  \A k \in Steps :
    New(rewrites[k]).message =
      IF rewrites[k].step = 0 THEN Orig(rewrites[k]).message
      ELSE ReplaceAll(Orig(rewrites[k]).message, MARKER, REPLACEMENT)

\* C8. keepAuthor invariance: with keepAuthor both signatures of every
\* rewritten commit are the original commit's, whatever changeTime is.
C8_KeepAuthorInvariance ==
  keepAuthor =>
    \A k \in Steps :
      /\ New(rewrites[k]).author = Orig(rewrites[k]).author
      /\ New(rewrites[k]).committer = Orig(rewrites[k]).committer

\* C8 happens: with keepAuthor and changeTime the first commit was amended
\* and a chain step created a commit.
C8_Witness ==
  /\ keepAuthor /\ changeTime
  /\ \E k \in Steps : rewrites[k].step > 0

Matching(files, label) == {k \in 1..Len(files) : Includes(files[k], label)}

\* C9. Role-majority rule: the identity chosen for a commit has role
\* backend when more of its paths contain 'server' than 'client', role
\* frontend when more contain 'client', and is an entry of the pool when
\* the counts are equal.
C9_RoleMajority ==
  classified # 0 =>
    LET files == getCommitFiles(odb, classified)
        backend == Cardinality(Matching(files, BACKEND_LABEL))
        frontend == Cardinality(Matching(files, FRONTEND_LABEL))
    IN /\ backend > frontend => author.role = "backend"
       /\ frontend > backend => author.role = "frontend"
       /\ backend = frontend => \E k \in 1..Len(authors) : authors[k] = author

\* `later` is the instant six calendar months after `time`: the same time
\* of the day, six months on, the same day of the month or the month's last
SixMonthsLater(time, later) ==
  LET a == Civil(time.d)
      b == Civil(later.d)
      last == DaysInMonth(b.y, b.m)
  IN /\ later.s = time.s
     /\ 12 * b.y + b.m = 12 * a.y + a.m + 6
     /\ b.d = IF a.d > last THEN last ELSE a.d

Shifted(time, new) ==
  IF changeTime THEN SixMonthsLater(time, new) ELSE new = time

\* C10. Time-shift correctness: without keepAuthor the author instant and
\* the committer instant of a rewritten commit are each the original one,
\* or the instant six calendar months after it when changeTime is set.
C10_TimeShift ==
  ~keepAuthor =>
    \A k \in Steps :
      /\ Shifted(Orig(rewrites[k]).author.time, New(rewrites[k]).author.time)
      /\ Shifted(Orig(rewrites[k]).committer.time,
                 New(rewrites[k]).committer.time)

SeedCalls == {"seedDiff", "seedAuthor", "amend"}

\* C11. A failure of the seed step is fatal: when the classification or the
\* amend of the first commit fails, run() ends there; no chain step is
\* attempted, no rewrite record exists and no summary is printed.
C11_SeedFailureFatal ==
  abortAt \in SeedCalls =>
    /\ pc = "aborted"
    /\ i = 0 /\ currentCommit = 0 /\ failed = {}
    /\ newFirstCommit = <<>> /\ acc = <<>> /\ rewrites = <<>>
    /\ modifiedCommits = -1

\* C11 happens: the amend of the first commit failed with chain commits
\* still to rewrite.
C11_Witness ==
  /\ pc = "aborted" /\ abortAt = "amend"
  /\ commits # <<>>

\* C12. Once the first commit is amended the run ends with the summary,
\* whichever chain steps fail: it never ends inside the chain without one.
\* Stated on the state where run() has ended.
C12_SummaryAfterSeed ==
  newFirstCommit # <<>> => pc # "aborted"

Unresolved == ~Exists(refs, BranchName) /\ ~Exists(refs, OriginName)

\* C13. When neither <branch> nor origin/<branch> resolves no step of the
\* run changes the repository: no pointer is created or deleted, no
\* checkout is started, no commit is amended or created.
C13_NoMutationWhenUnresolved ==
  [][Unresolved =>
       /\ UNCHANGED <<odb, refs, head>>
       /\ createCalls' = 0 /\ checkout' = "none" /\ rewrites' = <<>>]_vars

\* C13 happens: a run on a repository with neither branch has ended.
C13_Witness ==
  /\ Unresolved
  /\ pc \in {"aborted", "returned"} /\ abortAt # "open"

\* C14. Checkout before rewrite: whenever the amend or a commit creation
\* writes a commit and moves the branch HEAD names, the checkout of the
\* destination branch has completed and HEAD names recommited/<branch>; a
\* checkout that failed or has not ended allows no rewrite.
C14_CheckoutBeforeRewrite ==
  [][Len(rewrites') > Len(rewrites) =>
       checkout = "done" /\ head = NewBranchName]_vars

InPool(identity) == \E k \in 1..Len(authors) : authors[k] = identity

\* C15. Empty role subset: the identity chosen for a commit is always an
\* entry of the pool, also when no entry has the majority role, and no
\* step fails for want of an identity to build a signature from.
C15_EmptyRoleSubset ==
  /\ classified # 0 => InPool(author)
  /\ abortAt \notin {"seedAuthor", "chainAuthor"}

\* the records the summary is computed from (index.ts:234)
Records == newFirstCommit \o acc

\* C16. At completion the records are the seed's, then one for each chain
\* commit whose creation succeeded, in the order of the original commits,
\* none for a failed commit; the count printed is 1 + the successful steps.
C16_RecordList ==
  pc = "done" =>
    /\ Len(Records) = Len(rewrites)
    /\ rewrites[1].step = 0 /\ rewrites[1].orig = firstCommit
    /\ \A k \in Steps :
         /\ Records[k].id = rewrites[k].new
         /\ Records[k].old.author = Orig(rewrites[k]).author.name
         /\ Records[k].new.author = New(rewrites[k]).author.name
         /\ k > 1 => /\ rewrites[k - 1].step < rewrites[k].step
                     /\ rewrites[k].orig = commits[rewrites[k].step]
    /\ \A st \in 1..Len(commits) :
         (st \in failed) # (\E k \in Steps : rewrites[k].step = st)
    /\ modifiedCommits = 1 + Cardinality((1..Len(commits)) \ failed)

\* C16 happens: a run completed in which a chain step failed and a later
\* one succeeded.
C16_Witness ==
  /\ pc = "done"
  /\ \E f \in failed : \E k \in Steps : rewrites[k].step > f

\* C17. createBranch is called at most twice in a run: once first, and once
\* more only after the first call failed and the stale pointer was deleted;
\* a failed deletion or second creation ends the run before the checkout,
\* the amend and every commit creation.
C17_CreateAtMostTwice ==
  /\ [](/\ createCalls \in 0..2
        /\ abortAt \in {"delete", "createBranch"} =>
             /\ pc = "aborted" /\ newBranch = ""
             /\ checkout = "none" /\ i = 0 /\ rewrites = <<>>)
  /\ [][/\ createCalls' # createCalls =>
            \/ createCalls = 0 /\ createCalls' = 1 /\ pc = "createBranch"
            \/ createCalls = 1 /\ createCalls' = 2 /\ pc = "recreateBranch"
        /\ (pc' = "deleteStale" /\ pc # "deleteStale") =>
            /\ pc = "createBranch" /\ createCalls' = 1
            /\ refs' = refs /\ newBranch' = ""
        /\ (pc' = "recreateBranch" /\ pc # "recreateBranch") =>
            /\ pc = "deleteStale" /\ createCalls' = 1
            /\ Exists(refs, NewBranchName)
            /\ refs' = refs \ DestinationPointers]_vars

\* C17 happens: the first createBranch was refused, the stale pointer was
\* deleted and the second createBranch failed, ending the run.
C17_Witness ==
  /\ createCalls = 2
  /\ pc = "aborted" /\ abortAt = "createBranch"
  /\ ~Exists(refs, NewBranchName)

\* C18. Without keepAuthor, the author and the committer signature of the
\* amended first commit and of every commit a chain step creates carry the
\* name and email of the one identity chosen for that commit, and each has
\* the UTC offset of its own original signature, whatever changeTime is.
C18_ChosenIdentity ==
  [][(~keepAuthor /\ Len(rewrites') > Len(rewrites)) =>
       LET w == rewrites'[Len(rewrites')]
           seed == w.step = 0
           identity == IF seed THEN author' ELSE author
           new == odb'[w.new]
           orig == odb'[w.orig]
       IN /\ (IF seed THEN classified' ELSE classified) = w.orig
          /\ new.author.name = identity.name
          /\ new.author.email = identity.email
          /\ new.committer.name = identity.name
          /\ new.committer.email = identity.email
          /\ new.author.offset = orig.author.offset
          /\ new.committer.offset = orig.committer.offset]_vars

\* C18 happens: without keepAuthor a chain step rewrote a commit whose
\* author and committer differ in name and in offset.
C18_Witness ==
  /\ ~keepAuthor
  /\ \E k \in Steps :
       /\ rewrites[k].step > 0
       /\ Orig(rewrites[k]).author.name # Orig(rewrites[k]).committer.name
       /\ Orig(rewrites[k]).author.offset # Orig(rewrites[k]).committer.offset
       /\ New(rewrites[k]).author.offset # 0

\* C19. Non-destructive rewrite: no step of a run moves or removes the
\* source branch pointer <branch> or origin/<branch>; the amend and the
\* commit creations change the destination pointer alone.
C19_NonDestructive ==
  [][\A x \in refs : x.name \in {BranchName, OriginName} => x \in refs']_vars

\* C20. Destination tip: after the amend of the first commit and after
\* every chain step, failed or not, recommited/<branch> points at the
\* commit of the last rewrite record, and the head commit taken as parent
\* when the accumulator is empty is the amended first commit.
C20_DestinationTip ==
  /\ (rewrites # <<>> /\ pc \in {"reduce", "report", "done"}) =>
       /\ Exists(refs, NewBranchName)
       /\ Target(refs, NewBranchName) = tail(rewrites).new
  /\ (pc = "createCommit" /\ acc = <<>>) => currentCommit = rewrites[1].new

====
